---- MODULE Spec2Model ----
(***************************************************************************)
(* A model of the two scripts of the repository:                           *)
(*   scripts/tiktoken_bridge.py   the stdin/stdout bridge that counts or   *)
(*                                chunks a text by token count;            *)
(*   process_transcripts.py       the transcript / product join with its   *)
(*                                process-wide product details cache.      *)
(***************************************************************************)
EXTENDS Integers, Sequences, FiniteSets, TLC

(***************************************************************************)
(* Bounds of the model.                                                    *)
(***************************************************************************)
MaxLen == 5
MaxMaxTokens == 3
MaxOverlap == 3
\* the model keeps the first MaxChunks entries of the chunk list; a run that
\* terminates appends at most one chunk per cursor value, so fewer than this
MaxChunks == MaxLen + 2
\* longest id list of one transcript, or of one call of the fetch helper
MaxIds == 2
\* most records get_all returns
MaxRecords == 2

Min(a, b) == IF a < b THEN a ELSE b

(***************************************************************************)
(* The tokenization scheme (tiktoken, an external library).  Texts are     *)
(* sequences over a two letter alphabet; the scheme has the single-letter  *)
(* tokens 1 = "a", 2 = "b" and the merged token 3 = "ab", and encodes      *)
(* greedily, longest match first, as a byte-pair encoder does.             *)
(***************************************************************************)
Alphabet == {"a", "b"}
Texts == UNION {[1..n -> Alphabet] : n \in 0..MaxLen}
Models == {"text-embedding-3-small", "no-such-model"}

\* tiktoken.encoding_for_model(model) raises for a model it does not know
encoding_for_model(model) == model = "text-embedding-3-small"

TokenText(t) == CASE t = 1 -> <<"a">>
                  [] t = 2 -> <<"b">>
                  [] t = 3 -> <<"a", "b">>

RECURSIVE Encode(_)
Encode(text) ==
  IF text = <<>> THEN <<>>
  ELSE IF Len(text) >= 2 /\ text[1] = "a" /\ text[2] = "b"
       THEN <<3>> \o Encode(SubSeq(text, 3, Len(text)))
       ELSE <<IF text[1] = "a" THEN 1 ELSE 2>> \o Encode(Tail(text))

RECURSIVE Decode(_)
Decode(toks) ==
  IF toks = <<>> THEN <<>> ELSE TokenText(Head(toks)) \o Decode(Tail(toks))

\* Python's tokens[lo:hi] for 0 <= lo and hi <= len(tokens)
Slice(s, lo, hi) == SubSeq(s, lo + 1, hi)

(***************************************************************************)
(* Result values: an error value, a token count or a chunk list.           *)
(***************************************************************************)
ErrorResult(msg) == [tag |-> "error", msg |-> msg]
CountResult(n) == [tag |-> "count", n |-> n]
ChunksResult(cs) == [tag |-> "chunks", chunks |-> cs]

VARIABLES
  \* tiktoken_bridge.py
  pc,              \* position of the bridge: "main", "loop", "body", "write", "done"
  input_data,      \* the parsed request
  tokens,          \* chunk_text: tokens
  chunks,          \* chunk_text: chunks
  ranges,          \* chunk_text: the <<i, chunk_end>> of each appended chunk
  i,               \* chunk_text: the cursor
  result,          \* __main__: result
  stdout,          \* the responses written
  called,          \* the operations __main__ has called
  \* process_transcripts.py
  tpc,                         \* position of process_transcripts / fetch
  product_details_cache,       \* the module-level cache
  get_calls,                   \* product_table.get calls made, per product id
  product_record_ids,          \* fetch: the argument
  missing_ids,                 \* fetch: ids still to fetch in this call
  product_details_list,        \* fetch: the returned list
  records,                     \* the records get_all returned
  initial_transcript_data_list,
  all_mentioned_product_ids,
  final_data_for_vectorization,
  returned                     \* what process_transcripts returned

bridgeVars == <<pc, input_data, tokens, chunks, ranges, i, result, stdout, called>>
transcriptVars == <<tpc, product_details_cache, get_calls, product_record_ids,
                    missing_ids, product_details_list, records,
                    initial_transcript_data_list, all_mentioned_product_ids,
                    final_data_for_vectorization, returned>>
vars == <<bridgeVars, transcriptVars>>

(***************************************************************************)
(* tiktoken_bridge.py                                                      *)
(***************************************************************************)
Actions == {"count_tokens", "chunk_text", "summarize"}

Requests == [action : Actions, text : Texts, model : Models,
             max_tokens : 0..MaxMaxTokens, overlap_tokens : 0..MaxOverlap]

count_tokens(text, model) ==
  IF encoding_for_model(model)
  THEN CountResult(Len(Encode(text)))
  ELSE ErrorResult("scheme")

\* while i < len(tokens)
LoopCondInclusive(cursor, n) == cursor <= n

LoopCond(cursor, n) == cursor < n

\* chunk_end = min(i + max_tokens, len(tokens))
ChunkEndWide(cursor, max_tokens, n) == Min(cursor + max_tokens + 1, n)

ChunkEndShort(cursor, max_tokens, n) == Min(cursor + max_tokens - 1, n)

ChunkEnd(cursor, max_tokens, n) == Min(cursor + max_tokens, n)

\* i = chunk_end - overlap_tokens if chunk_end < len(tokens) else chunk_end
AdvanceAlwaysOverlap(chunk_end, overlap_tokens, n) == chunk_end - overlap_tokens

AdvanceSkipOne(chunk_end, overlap_tokens, n) ==
  IF chunk_end + 1 < n THEN chunk_end - overlap_tokens + 1 ELSE chunk_end

Advance(chunk_end, overlap_tokens, n) ==
  IF chunk_end < n THEN chunk_end - overlap_tokens ELSE chunk_end

\* if i < 0 or i == i + max_tokens: i = chunk_end
ProgressGuard(adv, chunk_end, max_tokens) ==
  IF adv < 0 \/ adv = adv + max_tokens THEN chunk_end ELSE adv

NextCursorNoOverlap(chunk_end, max_tokens, overlap_tokens, n) == chunk_end

NextCursor(chunk_end, max_tokens, overlap_tokens, n) ==
  ProgressGuard(Advance(chunk_end, overlap_tokens, n), chunk_end, max_tokens)

\* the other script is not running
TranscriptIdle ==
  /\ tpc = "idle"
  /\ product_details_cache = <<>>
  /\ get_calls = <<>>
  /\ product_record_ids = <<>>
  /\ missing_ids = <<>>
  /\ product_details_list = <<>>
  /\ records = <<>>
  /\ initial_transcript_data_list = <<>>
  /\ all_mentioned_product_ids = {}
  /\ final_data_for_vectorization = <<>>
  /\ returned = <<>>

BridgeInit ==
  /\ TranscriptIdle
  /\ pc = "main"
  /\ input_data \in Requests
  /\ tokens = <<>>
  /\ chunks = <<>>
  /\ ranges = <<>>
  /\ i = 0
  /\ result = ErrorResult("unset")
  /\ stdout = <<>>
  /\ called = {}

\* action == "count_tokens": result = count_tokens(text, model)
MainCountTokens ==
  /\ pc = "main"
  /\ input_data.action = "count_tokens"
  /\ result' = count_tokens(input_data.text, input_data.model)
  /\ called' = called \cup {"count_tokens"}
  /\ pc' = "write"
  /\ UNCHANGED <<input_data, tokens, chunks, ranges, i, stdout>>

\* action == "chunk_text": the call of chunk_text up to the loop; an
\* unsupported model raises in encoding_for_model and the handler returns
\* the error value
MainChunkText ==
  /\ pc = "main"
  /\ input_data.action = "chunk_text"
  /\ called' = called \cup {"chunk_text"}
  /\ IF encoding_for_model(input_data.model)
     THEN /\ tokens' = Encode(input_data.text)
          /\ pc' = "loop"
          /\ UNCHANGED result
     ELSE /\ result' = ErrorResult("scheme")
          /\ pc' = "write"
          /\ UNCHANGED tokens
  /\ chunks' = <<>>
  /\ ranges' = <<>>
  /\ i' = 0
  /\ UNCHANGED <<input_data, stdout>>

\* else: result = {"error": "Unknown action: ..."}
MainUnknownAction ==
  /\ pc = "main"
  /\ input_data.action \notin {"count_tokens", "chunk_text"}
  /\ result' = ErrorResult("unknown action")
  /\ pc' = "write"
  /\ UNCHANGED <<input_data, tokens, chunks, ranges, i, stdout, called>>

\* chunks.append(chunk_text), on the first MaxChunks entries of the list
ListAppend(list, x) == IF Len(list) < MaxChunks THEN Append(list, x) ELSE list

\* the loop condition holds: enter the body
LoopEnter ==
  /\ pc = "loop"
  /\ LoopCond(i, Len(tokens))
  /\ pc' = "body"
  /\ UNCHANGED <<input_data, tokens, chunks, ranges, i, result, stdout, called>>

\* the body of the while loop of chunk_text
ChunkIter ==
  /\ pc = "body"
  /\ pc' = "loop"
  /\ LET chunk_end == ChunkEnd(i, input_data.max_tokens, Len(tokens))
         chunk_tokens == Slice(tokens, i, chunk_end)
     IN /\ chunks' = ListAppend(chunks, Decode(chunk_tokens))
        /\ ranges' = ListAppend(ranges, <<i, chunk_end>>)
        /\ i' = NextCursor(chunk_end, input_data.max_tokens,
                           input_data.overlap_tokens, Len(tokens))
  /\ UNCHANGED <<input_data, tokens, result, stdout, called>>

\* the loop condition fails: return chunks
ChunkReturn ==
  /\ pc = "loop"
  /\ ~LoopCond(i, Len(tokens))
  /\ result' = ChunksResult(chunks)
  /\ pc' = "write"
  /\ UNCHANGED <<input_data, tokens, chunks, ranges, i, stdout, called>>

\* sys.stdout.write(json.dumps({"result": result}))
WriteResponse ==
  /\ pc = "write"
  /\ stdout' = Append(stdout, [result |-> result])
  /\ pc' = "done"
  /\ UNCHANGED <<input_data, tokens, chunks, ranges, i, result, called>>

BridgeNext ==
  /\ \/ MainCountTokens
     \/ MainChunkText
     \/ MainUnknownAction
     \/ LoopEnter
     \/ ChunkIter
     \/ ChunkReturn
     \/ WriteResponse
  /\ UNCHANGED transcriptVars

BridgeSpec == BridgeInit /\ [][BridgeNext]_vars

\* the bridge is one sequential process: it takes its next step whenever
\* it has one
FairBridgeSpec == BridgeSpec /\ WF_vars(BridgeNext)

(***************************************************************************)
(* process_transcripts.py                                                  *)
(***************************************************************************)
\* the record ids of two products
ProductIds == {"recA", "recB"}
IdLists == UNION {[1..n -> ProductIds] : n \in 0..MaxIds}

None == "None"
\* Python truthiness of a string-or-None field value
Truthy(v) == v \notin {None, ""}

Range(seq) == {seq[k] : k \in 1..Len(seq)}

RECURSIVE SeqFilter(_, _)
\* [x for x in seq if x in keep]
SeqFilter(seq, keep) ==
  IF seq = <<>> THEN <<>>
  ELSE IF Head(seq) \in keep
       THEN <<Head(seq)>> \o SeqFilter(Tail(seq), keep)
       ELSE SeqFilter(Tail(seq), keep)

RECURSIVE TruthyOnly(_)
\* [img for img in images if img]
TruthyOnly(seq) ==
  IF seq = <<>> THEN <<>>
  ELSE IF Truthy(Head(seq))
       THEN <<Head(seq)>> \o TruthyOnly(Tail(seq))
       ELSE TruthyOnly(Tail(seq))

\* what product_table.get(product_id) can do: raise, return nothing or a
\* record without 'fields', or return a record with fields
ProductFields ==
  { [name |-> "tool", affiliate |-> "aff", website |-> "web",
     description |-> "desc", images |-> <<"img1", None, "img3", None>>],
    [name |-> "tool", affiliate |-> "", website |-> "web",
     description |-> None, images |-> <<None, None, None, None>>] }

GetOutcomes ==
  {[kind |-> "raise"], [kind |-> "nofields"]}
    \cup {[kind |-> "record", fields |-> f] : f \in ProductFields}

\* cache values: None for a cached failure, or the details
NoneEntry == [tag |-> "None"]

\* the dictionary stored in the cache for a fetched record
ProductDetails(product_id, fields) ==
  [tag |-> "detail",
   tool_name |-> fields.name,
   link |-> IF Truthy(fields.affiliate) THEN fields.affiliate ELSE fields.website,
   description |-> fields.description,
   images |-> TruthyOnly(fields.images),
   airtable_product_record_id |-> product_id]

EmptyCache == [p \in {} |-> NoneEntry]

\* product_details_cache[product_id] = value
CachePut(cache, product_id, value) ==
  [p \in DOMAIN cache \cup {product_id} |->
     IF p = product_id THEN value ELSE cache[p]]

\* the value cached for what get did
CacheValue(product_id, outcome) ==
  IF outcome.kind = "record"
  THEN ProductDetails(product_id, outcome.fields)
  ELSE NoneEntry

\* detail = product_details_cache.get(product_id); if detail: ...
HasDetail(cache, product_id) ==
  product_id \in DOMAIN cache /\ cache[product_id].tag = "detail"

RECURSIVE DetailsOf(_, _)
\* the cached details of the ids of a list, in the order of the list
DetailsOf(ids, cache) ==
  IF ids = <<>> THEN <<>>
  ELSE IF HasDetail(cache, Head(ids))
       THEN <<cache[Head(ids)]>> \o DetailsOf(Tail(ids), cache)
       ELSE DetailsOf(Tail(ids), cache)

\* missing_ids = [pid for pid in product_record_ids if pid not in cache]
MissingIds(ids, cache) == SeqFilter(ids, ProductIds \ DOMAIN cache)

\* the call of fetch_and_cache_product_details up to its fetch loop
FetchBegin(ids) ==
  /\ product_record_ids' = ids
  /\ missing_ids' = MissingIds(ids, product_details_cache)
  /\ product_details_list' = <<>>
  /\ tpc' = "fetching"
  /\ UNCHANGED <<product_details_cache, get_calls>>

\* one iteration of the fetch loop: product_table.get and the cache update
FetchOne ==
  /\ tpc = "fetching"
  /\ missing_ids # <<>>
  /\ \E outcome \in GetOutcomes :
       LET product_id == Head(missing_ids)
       IN /\ get_calls' = [get_calls EXCEPT ![product_id] = @ + 1]
          /\ product_details_cache' =
               CachePut(product_details_cache, product_id,
                        CacheValue(product_id, outcome))
  /\ missing_ids' = Tail(missing_ids)
  /\ UNCHANGED <<tpc, product_record_ids, product_details_list, records,
                 initial_transcript_data_list, all_mentioned_product_ids,
                 final_data_for_vectorization, returned>>

\* the retrieval loop and the return of fetch_and_cache_product_details
FetchReturn(next_pc) ==
  /\ tpc = "fetching"
  /\ missing_ids = <<>>
  /\ product_details_list' = DetailsOf(product_record_ids, product_details_cache)
  /\ tpc' = next_pc
  /\ UNCHANGED <<product_details_cache, get_calls, product_record_ids,
                 missing_ids, records, initial_transcript_data_list,
                 all_mentioned_product_ids, final_data_for_vectorization,
                 returned>>

\* the other script is not running
BridgeIdle ==
  /\ pc = "idle"
  /\ input_data = <<>>
  /\ tokens = <<>>
  /\ chunks = <<>>
  /\ ranges = <<>>
  /\ i = 0
  /\ result = <<>>
  /\ stdout = <<>>
  /\ called = {}

\* the module as imported: the cache is empty and nothing has been fetched
CacheInit ==
  /\ product_details_cache = EmptyCache
  /\ get_calls = [p \in ProductIds |-> 0]
  /\ product_record_ids = <<>>
  /\ missing_ids = <<>>
  /\ product_details_list = <<>>
  /\ records = <<>>
  /\ initial_transcript_data_list = <<>>
  /\ all_mentioned_product_ids = {}
  /\ final_data_for_vectorization = <<>>
  /\ returned = <<>>

(* A caller that calls fetch_and_cache_product_details again and again.    *)
FetchCall ==
  /\ tpc = "idle"
  /\ \E ids \in IdLists : FetchBegin(ids)
  /\ UNCHANGED <<records, initial_transcript_data_list,
                 all_mentioned_product_ids, final_data_for_vectorization,
                 returned>>

FetchInit == BridgeIdle /\ tpc = "idle" /\ CacheInit

FetchNext ==
  /\ \/ FetchCall
     \/ FetchOne
     \/ FetchReturn("idle")
  /\ UNCHANGED bridgeVars

FetchSpec == FetchInit /\ [][FetchNext]_vars

(* process_transcripts, called once by __main__.                           *)
\* a record of get_all: whether it has an 'id', and its three fields
\* The id list of a record is read only when the record has an id, a text
\* and names (line 133 continues, line 142 short-circuits), so the records
\* that lack one of them all carry the same list.
TranscriptRecords ==
  {r \in [has_id : BOOLEAN, text : {None, "transcript"},
          names : {<<>>, <<"name">>}, ids : IdLists] :
     \/ r.has_id /\ r.text = "transcript" /\ r.names = <<"name">>
     \/ r.ids = <<"recA">>}
RecordLists == UNION {[1..n -> TranscriptRecords] : n \in 0..MaxRecords}

\* record.get('id'): the k-th record's id is k
RecordId(recs, k) == IF recs[k].has_id THEN k ELSE 0

\* if not record_id: continue;
\* if transcript_text and product_names_linked and product_record_ids: ...
MentionsProducts(recs, k) ==
  /\ RecordId(recs, k) # 0
  /\ Truthy(recs[k].text)
  /\ recs[k].names # <<>>
  /\ recs[k].ids # <<>>

RECURSIVE ScanFrom(_, _)
\* Phase 1: initial_transcript_data_list from record k on
ScanFrom(recs, k) ==
  IF k > Len(recs) THEN <<>>
  ELSE IF MentionsProducts(recs, k)
       THEN <<[airtable_transcript_record_id |-> RecordId(recs, k),
               transcript_text |-> recs[k].text,
               mentioned_product_ids |-> recs[k].ids]>> \o ScanFrom(recs, k + 1)
       ELSE ScanFrom(recs, k + 1)

\* Phase 1: all_mentioned_product_ids
MentionedIds(data) == UNION {Range(data[k].mentioned_product_ids) : k \in 1..Len(data)}

\* the orders in which a Python set can be iterated
Orders(S) == {seq \in [1..Cardinality(S) -> S] : Range(seq) = S}

RECURSIVE CombineKeepAll(_, _)
CombineKeepAll(data, cache) ==
  IF data = <<>> THEN <<>>
  ELSE <<[airtable_transcript_record_id |-> Head(data).airtable_transcript_record_id,
          transcript_text |-> Head(data).transcript_text,
          mentioned_products |-> DetailsOf(Head(data).mentioned_product_ids, cache)]>>
       \o CombineKeepAll(Tail(data), cache)

RECURSIVE Combine(_, _)
\* Phase 3: final_data_for_vectorization
Combine(data, cache) ==
  IF data = <<>> THEN <<>>
  ELSE LET fetched == DetailsOf(Head(data).mentioned_product_ids, cache)
       IN IF fetched # <<>>
          THEN <<[airtable_transcript_record_id |-> Head(data).airtable_transcript_record_id,
                  transcript_text |-> Head(data).transcript_text,
                  mentioned_products |-> fetched]>> \o Combine(Tail(data), cache)
          ELSE Combine(Tail(data), cache)

TranscriptInit == BridgeIdle /\ tpc = "start" /\ CacheInit

\* if not AIRTABLE_API_KEY: return []
NoApiKey ==
  /\ tpc = "start"
  /\ returned' = <<>>
  /\ tpc' = "returned"
  /\ UNCHANGED <<product_details_cache, get_calls, product_record_ids,
                 missing_ids, product_details_list, records,
                 initial_transcript_data_list, all_mentioned_product_ids,
                 final_data_for_vectorization>>

\* Phase 1 fails (get_all raises): return []
ScanRaises ==
  /\ tpc = "start"
  /\ returned' = <<>>
  /\ tpc' = "returned"
  /\ UNCHANGED <<product_details_cache, get_calls, product_record_ids,
                 missing_ids, product_details_list, records,
                 initial_transcript_data_list, all_mentioned_product_ids,
                 final_data_for_vectorization>>

\* Phase 1, and the start of Phase 2: return [] without product ids, else
\* call fetch_and_cache_product_details with the set of ids
Scan ==
  /\ tpc = "start"
  /\ \E recs \in RecordLists :
       LET data == ScanFrom(recs, 1)
           idset == MentionedIds(data)
       IN /\ records' = recs
          /\ initial_transcript_data_list' = data
          /\ all_mentioned_product_ids' = idset
          /\ IF idset = {}
             THEN /\ returned' = <<>>
                  /\ tpc' = "returned"
                  /\ UNCHANGED <<product_details_cache, get_calls,
                                 product_record_ids, missing_ids,
                                 product_details_list>>
             ELSE /\ \E ids \in Orders(idset) : FetchBegin(ids)
                  /\ UNCHANGED returned
  /\ UNCHANGED final_data_for_vectorization

\* Phase 3 and the return
CombineReturn ==
  /\ tpc = "combine"
  /\ final_data_for_vectorization' =
       Combine(initial_transcript_data_list, product_details_cache)
  /\ returned' = final_data_for_vectorization'
  /\ tpc' = "returned"
  /\ UNCHANGED <<product_details_cache, get_calls, product_record_ids,
                 missing_ids, product_details_list, records,
                 initial_transcript_data_list, all_mentioned_product_ids>>

TranscriptNext ==
  /\ \/ NoApiKey
     \/ ScanRaises
     \/ Scan
     \/ FetchOne
     \/ FetchReturn("combine")
     \/ CombineReturn
  /\ UNCHANGED bridgeVars

TranscriptSpec == TranscriptInit /\ [][TranscriptNext]_vars

(***************************************************************************)
(* Properties of tiktoken_bridge.py                                        *)
(***************************************************************************)
\* chunk_text has been entered with a supported model
ChunkRun == "chunk_text" \in called /\ encoding_for_model(input_data.model)

\* max_tokens >= 1 and 0 <= overlap_tokens < max_tokens
ValidParams ==
  /\ input_data.max_tokens >= 1
  /\ input_data.overlap_tokens < input_data.max_tokens

TokenCount == Len(Encode(input_data.text))

RangeLo(k) == ranges[k][1]
RangeHi(k) == ranges[k][2]
RangeSet(k) == RangeLo(k) .. (RangeHi(k) - 1)

\* C1: with max_tokens >= 1 and 0 <= overlap_tokens < max_tokens every
\* iteration of the loop strictly increases the cursor i without passing N,
\* and the loop terminates with i = N.
C1_LoopTerminates ==
  /\ [][(ChunkIter /\ ValidParams) => (i' > i /\ i' <= Len(tokens))]_vars
  /\ [](pc = "done" /\ ChunkRun /\ ValidParams => i = Len(tokens))
  /\ ((pc = "loop" /\ ValidParams) ~> (pc = "done"))

C1_Witness ==
  /\ pc = "done" /\ ChunkRun
  /\ input_data.max_tokens >= 2
  /\ input_data.overlap_tokens = input_data.max_tokens - 1
  /\ Len(ranges) >= 3
  /\ i = Len(tokens)

\* C2: for max_tokens >= 1 and any overlap_tokens >= 0, an iteration whose
\* computed advance does not strictly increase the cursor i leaves the
\* cursor at the chunk end, past where it was.
C2_GuardForcesProgress ==
  [][(/\ ChunkIter
      /\ input_data.max_tokens >= 1
      /\ Advance(ChunkEnd(i, input_data.max_tokens, Len(tokens)),
                 input_data.overlap_tokens, Len(tokens)) <= i)
     => (i' = ChunkEnd(i, input_data.max_tokens, Len(tokens)) /\ i' > i)]_vars

\* C3: with valid parameters, at every point of the loop every appended
\* chunk is the decoding of a contiguous token range of length 1..max_tokens.
C3_ChunkBounded ==
  (ChunkRun /\ ValidParams) =>
    /\ Len(ranges) = Len(chunks)
    /\ \A k \in 1..Len(ranges) :
         /\ 0 <= RangeLo(k)
         /\ RangeHi(k) <= Len(tokens)
         /\ RangeHi(k) - RangeLo(k) >= 1
         /\ RangeHi(k) - RangeLo(k) <= input_data.max_tokens
         /\ chunks[k] = Decode(Slice(tokens, RangeLo(k), RangeHi(k)))

C3_Witness ==
  /\ pc = "loop" /\ ChunkRun /\ ValidParams
  /\ i < Len(tokens)
  /\ Len(chunks) >= 2
  /\ input_data.overlap_tokens >= 1

\* C4 as stated: if count_tokens(t) <= max_tokens then chunk_text returns
\* exactly one chunk, equal to t.
C4_SingleChunkOriginal ==
  (pc = "done" /\ ChunkRun /\ ValidParams
     /\ TokenCount <= input_data.max_tokens)
  => stdout = <<[result |-> ChunksResult(<<input_data.text>>)]>>

\* C4 amended: if 1 <= count_tokens(t) <= max_tokens then chunk_text
\* returns exactly one chunk, equal to t, for every allowed overlap_tokens.
C4_SingleChunk ==
  (pc = "done" /\ ChunkRun /\ ValidParams
     /\ TokenCount >= 1 /\ TokenCount <= input_data.max_tokens)
  => /\ stdout = <<[result |-> ChunksResult(<<input_data.text>>)]>>
     /\ ranges = <<<<0, TokenCount>>>>

C4_Witness ==
  /\ pc = "done" /\ ChunkRun /\ ValidParams
  /\ TokenCount = input_data.max_tokens
  /\ TokenCount >= 2
  /\ input_data.overlap_tokens >= 1
  /\ Len(chunks) = 1

RECURSIVE ConcatRanges(_)
ConcatRanges(k) ==
  IF k = 0 THEN <<>>
  ELSE ConcatRanges(k - 1) \o Slice(tokens, RangeLo(k), RangeHi(k))

RECURSIVE ConcatChunks(_)
ConcatChunks(k) ==
  IF k = 0 THEN <<>> ELSE ConcatChunks(k - 1) \o chunks[k]

\* C5: with overlap_tokens = 0 the emitted ranges start at 0, each starts
\* where the previous one ended, all but the last have max_tokens tokens,
\* the last ends at N, and their concatenation is the token sequence.
C5_ExactTiling ==
  (pc = "done" /\ ChunkRun /\ input_data.max_tokens >= 1
     /\ input_data.overlap_tokens = 0)
  => /\ (Len(tokens) = 0) = (ranges = <<>>)
     /\ ranges # <<>> => (RangeLo(1) = 0 /\ RangeHi(Len(ranges)) = Len(tokens))
     /\ \A k \in 1..(Len(ranges) - 1) :
          /\ RangeLo(k + 1) = RangeHi(k)
          /\ RangeHi(k) - RangeLo(k) = input_data.max_tokens
     /\ \A k \in 1..Len(ranges) : \A m \in 1..Len(ranges) :
          k # m => RangeSet(k) \cap RangeSet(m) = {}
     /\ ConcatRanges(Len(ranges)) = tokens
     /\ ConcatChunks(Len(chunks)) = input_data.text

C5_Witness ==
  /\ pc = "done" /\ ChunkRun
  /\ input_data.max_tokens >= 2
  /\ input_data.overlap_tokens = 0
  /\ Len(ranges) >= 3
  /\ RangeHi(Len(ranges)) - RangeLo(Len(ranges)) < input_data.max_tokens

\* the chunk ranges chunk_text computes from cursor on, as a function
RECURSIVE ChunkRanges(_, _, _, _)
ChunkRanges(cursor, n, max_tokens, overlap_tokens) ==
  IF ~LoopCond(cursor, n) THEN <<>>
  ELSE LET chunk_end == ChunkEnd(cursor, max_tokens, n)
       IN <<<<cursor, chunk_end>>>> \o
          ChunkRanges(NextCursor(chunk_end, max_tokens, overlap_tokens, n),
                      n, max_tokens, overlap_tokens)

Stride == input_data.max_tokens - input_data.overlap_tokens

\* the index of the first stride range that ends at N
LastStrideIndex ==
  CHOOSE k \in 0..TokenCount :
    /\ k * Stride + input_data.max_tokens >= TokenCount
    /\ \A j \in 0..(k - 1) : j * Stride + input_data.max_tokens < TokenCount

\* C6: with valid parameters and N >= 1 the emitted ranges are
\* [k*s, min(k*s + max_tokens, N)) for k = 0.. up to the first that ends at
\* N (s = max_tokens - overlap_tokens): they start at 0, end at N, cover
\* [0, N), and consecutive ranges share exactly overlap_tokens tokens;
\* N = 100, max_tokens = 40, overlap_tokens = 10 gives [0,40) [30,70) [60,100).
C6_StrideRanges ==
  /\ (pc = "done" /\ ChunkRun /\ ValidParams /\ TokenCount >= 1)
     => /\ Len(ranges) = LastStrideIndex + 1
        /\ \A k \in 0..LastStrideIndex :
             ranges[k + 1] = <<k * Stride,
                               Min(k * Stride + input_data.max_tokens, TokenCount)>>
        /\ RangeLo(1) = 0
        /\ RangeHi(Len(ranges)) = TokenCount
        /\ UNION {RangeSet(k) : k \in 1..Len(ranges)} = 0..(TokenCount - 1)
        /\ \A k \in 1..(Len(ranges) - 1) :
             Cardinality(RangeSet(k) \cap RangeSet(k + 1))
               = input_data.overlap_tokens
  /\ ChunkRanges(0, 100, 40, 10) = <<<<0, 40>>, <<30, 70>>, <<60, 100>>>>

C6_Witness ==
  /\ pc = "done" /\ ChunkRun /\ ValidParams
  /\ input_data.overlap_tokens >= 1
  /\ Stride >= 2
  /\ Len(ranges) >= 2
  /\ RangeHi(Len(ranges)) - RangeLo(Len(ranges)) < input_data.max_tokens

\* the response the request calls for
ExpectedResponse ==
  IF input_data.action \notin {"count_tokens", "chunk_text"}
  THEN /\ stdout[1].result.tag = "error"
       /\ called = {}
  ELSE IF ~encoding_for_model(input_data.model)
  THEN stdout[1].result.tag = "error"
  ELSE IF input_data.action = "count_tokens"
  THEN stdout[1].result = CountResult(TokenCount)
  ELSE stdout[1].result = ChunksResult(chunks)

\* C7: every parsed request (here those with max_tokens >= 1) gets exactly
\* one response {"result": ...}: an error value for an unknown action
\* (neither operation called) or an unsupported scheme, otherwise the
\* operation's value.
C7_OneResponse ==
  /\ [](Len(stdout) <= 1)
  /\ [](pc = "done" => (Len(stdout) = 1 /\ ExpectedResponse))
  /\ (input_data.max_tokens >= 1) => <>(pc = "done")

\* C8: for the empty text the loop body of chunk_text is never entered and
\* it returns the empty list, for every max_tokens and overlap_tokens, and
\* count_tokens returns 0.
C8_EmptyInput ==
  (input_data.text = <<>> /\ encoding_for_model(input_data.model)) =>
    /\ chunks = <<>> /\ ranges = <<>>
    /\ (pc = "done" /\ input_data.action = "chunk_text")
         => stdout = <<[result |-> ChunksResult(<<>>)]>>
    /\ (pc = "done" /\ input_data.action = "count_tokens")
         => stdout = <<[result |-> CountResult(0)]>>

C8_Witness ==
  /\ pc = "done" /\ ChunkRun
  /\ input_data.text = <<>>
  /\ input_data.overlap_tokens >= input_data.max_tokens
  /\ stdout = <<[result |-> ChunksResult(<<>>)]>>

(***************************************************************************)
(* Properties of process_transcripts.py                                    *)
(***************************************************************************)
\* C9: over any sequence of calls of fetch_and_cache_product_details with
\* any id lists, product_table.get is called at most once per product id,
\* a cache entry once set is never removed or overwritten, and after each
\* call every requested id is a key of the cache.
C9_FetchedAtMostOnce ==
  /\ [](\A p \in ProductIds : get_calls[p] <= 1)
  /\ [][\A p \in DOMAIN product_details_cache :
          /\ p \in DOMAIN product_details_cache'
          /\ product_details_cache'[p] = product_details_cache[p]]_vars
  /\ [](tpc = "idle" => Range(product_record_ids) \subseteq DOMAIN product_details_cache)

\* the details of product p were fetched successfully
Fetched(p) ==
  /\ get_calls[p] >= 1
  /\ p \in DOMAIN product_details_cache
  /\ product_details_cache[p].tag = "detail"

\* the n-th smallest element of a set of numbers
NthOf(S, n) == CHOOSE x \in S : Cardinality({y \in S : y <= x}) = n

\* positions of the ids of record k whose details were fetched
FetchedPositions(k) ==
  {m \in 1..Len(records[k].ids) : Fetched(records[k].ids[m])}

\* the scanned records that belong in the output
KeptRecords ==
  {k \in 1..Len(records) :
     /\ records[k].has_id
     /\ records[k].text = "transcript"
     /\ records[k].names = <<"name">>
     /\ FetchedPositions(k) # {}}

\* C10: process_transcripts returns, in scan order, exactly the scanned
\* transcripts that have an id, a text, linked product names and at least
\* one product id with fetched details; each carries the non-empty list of
\* the fetched details of its own product ids, in the order of the ids.
C10_OutputRecords ==
  (tpc = "returned") =>
    /\ Len(returned) = Cardinality(KeptRecords)
    /\ \A j \in 1..Len(returned) :
         LET k == NthOf(KeptRecords, j)
             products == returned[j].mentioned_products
         IN /\ returned[j].airtable_transcript_record_id = k
            /\ returned[j].transcript_text = records[k].text
            /\ products # <<>>
            /\ Len(products) = Cardinality(FetchedPositions(k))
            /\ \A n \in 1..Len(products) :
                 LET p == records[k].ids[NthOf(FetchedPositions(k), n)]
                 IN /\ products[n] = product_details_cache[p]
                    /\ products[n].airtable_product_record_id = p

C10_Witness ==
  /\ tpc = "returned"
  /\ Len(records) >= 2
  /\ Len(initial_transcript_data_list) = 2
  /\ Len(returned) = 1
  /\ returned[1].airtable_transcript_record_id = 2
  /\ Len(records[2].ids) = 2
  /\ Len(returned[1].mentioned_products) = 1

====
